---- MODULE Spec2Model ----
(***************************************************************************)
(* QjNotebook: the retrieval-and-synthesis core.                           *)
(*                                                                         *)
(* The model follows backend/app/services: LangChainRAGPipeline (query,    *)
(* query_with_history, set_provider), LLMFactory (the memoizing registry   *)
(* of generation backends), RetrieverFactory (the retrieval modes and      *)
(* their fallbacks), the rerankers, NotebookManager.add_documents, and the *)
(* query endpoint of main.py.                                              *)
(* A call is a small process: one step per statement that reads or writes  *)
(* shared state or that can raise.  The third-party collaborators (the     *)
(* language models, the vector index, the library retrievers) are the      *)
(* environment: each of their calls either raises or returns, chosen with  *)
(* \E at the step that makes the call.                                     *)
(***************************************************************************)
EXTENDS Integers, Sequences, FiniteSets, TLC

VARIABLES
    config,            \* AppConfig: what the model reads of it (fixed after load)
    current_provider,  \* LangChainRAGPipeline.current_provider
    llms,              \* LLMFactory._llms of the pipeline: name -> instance id (0: absent)
    embeddings,        \* EmbeddingFactory._embeddings: the name the handle was built for
    built,             \* history: how many backends were constructed per name
    activated,         \* history: names a set_provider call activated
    store,             \* the vector index: namespace -> passages, in insertion order
    calls              \* the calls in flight: call id -> frame

vars == <<config, current_provider, llms, embeddings, built, activated, store, calls>>

----------------------------------------------------------------------------
(* Bounds of the model *)

\* Passages one namespace holds at most.
MaxDocs == 2
\* Backends the model constructs per provider name at most.
MaxBuilt == 2
\* Passages a list handed to a reranker holds at most.
MaxLen == 3
\* Entries a long chat history holds at most.
MaxTurns == 6
----------------------------------------------------------------------------
(* Values *)

\* Python's None.
None == "<None>"

\* `x or y`: None and the empty string are falsy.
Falsy(x) == x = None \/ x = ""

Or(x, y) == IF Falsy(x) THEN y ELSE x

\* The names LLMFactory._create_llm knows.
SupportedProviders == {"openai", "deepseek", "gemini", "doubao"}

\* config.llm_provider, the configured default.
DefaultProvider == "openai"

\* Names a caller passes: the supported ones the model exercises, an
\* unsupported one, and the empty string.
ProviderNames == {"openai", "deepseek", "bogus", ""}

Notebooks == {"A", "B"}

\* Texts are sequences of characters, so that strip() is computed.
SP == " "

Questions == { <<"x">>, <<"y">> }

\* What the rewrite chain can answer: a question, a question in blanks, only
\* blanks, nothing.
RewriteOutputs == { <<"y">>, <<SP, "x", SP>>, <<SP>>, <<>> }

\* Chunk texts.
Texts == {"x", "y"}

\* A chat turn: a dict with the keys it has. The histories a caller passes:
\* None, [], one turn.
Turn == [keys |-> {"question", "answer"}, question |-> <<"x">>, answer |-> <<"y">>]

NoHistory == [given |-> FALSE, turns |-> <<>>]

Histories == { NoHistory, [given |-> TRUE, turns |-> <<>>], [given |-> TRUE, turns |-> <<Turn>>] }

\* A mutation: `if chat_history is not None`.
HasHistoryGiven(chat_history) == chat_history.given

\* `if chat_history:`: None and [] are falsy.
HasHistory(chat_history) == chat_history.turns # <<>>

\* `chat_history[-5:]`: the entries _format_chat_history keeps.
HistoryWindow == 5

\* A mutation: every entry is kept.
WholeHistory(entries) == entries

\* chat_history[-5:]
LastEntries(entries) ==
    SubSeq(entries, IF Len(entries) > HistoryWindow THEN Len(entries) - HistoryWindow + 1 ELSE 1,
           Len(entries))

\* f"用户: {entry['question']}" and f"助手: {entry['answer']}"
UserLine(question) == <<"user", question>>

AssistantLine(answer) == <<"assistant", answer>>

\* history_parts: two lines per entry that has both keys.
RECURSIVE HistoryParts(_)
HistoryParts(entries) ==
    IF entries = <<>> THEN <<>>
    ELSE (IF {"question", "answer"} \subseteq Head(entries).keys
          THEN <<UserLine(Head(entries).question), AssistantLine(Head(entries).answer)>>
          ELSE <<>>) \o HistoryParts(Tail(entries))

\* _format_chat_history: the text, as the sequence of its lines ("" has none).
FormatChatHistory(chat_history) ==
    IF ~HasHistory(chat_history) THEN <<>>
    ELSE HistoryParts(LastEntries(chat_history.turns))

TopKs == {1, 2}

\* The modes create_retriever names.
SupportedRetrieverTypes == {"vector", "bm25", "hybrid", "multi_query", "contextual_compression"}

\* The modes a configuration can name: the supported ones and another.
RetrieverTypes == SupportedRetrieverTypes \cup {"other"}

RerankerTypes == {"mmr", "basic", "none"}

\* The call slots: two calls can be in flight at once.
CallIds == {1, 2}

Min(a, b) == IF a < b THEN a ELSE b

Range(s) == { s[i] : i \in DOMAIN s }

----------------------------------------------------------------------------
(* str.strip() *)

RECURSIVE LStrip(_)
LStrip(s) == IF s # <<>> /\ Head(s) = SP THEN LStrip(Tail(s)) ELSE s

RECURSIVE RStrip(_)
RStrip(s) ==
    IF s # <<>> /\ s[Len(s)] = SP THEN RStrip(SubSeq(s, 1, Len(s) - 1)) ELSE s

Strip(s) == RStrip(LStrip(s))

----------------------------------------------------------------------------
(* Namespaces and the vector index *)

\* A mutation: one collection for every notebook.
CollectionNameShared(notebook_id) == <<"notebook_", "A">>

\* f"notebook_{notebook_id}"
CollectionName(notebook_id) == <<"notebook_", notebook_id>>

Namespaces == { CollectionName(n) : n \in Notebooks }

\* No 'score' in a passage's metadata.
NoScore == -1

\* A passage: the chunk text (page_content) and its metadata: the notebook it
\* was added to, the score (the index writes none), and what the MMR reranker
\* writes (mmr_rank 0 and original_score -1: absent).
Passage(nb, text) ==
    [origin |-> nb, text |-> text, score |-> NoScore, mmr_rank |-> 0, original_score |-> -1]

\* doc.metadata.get('score', 0.0)
ScoreOf(doc) == IF doc.score = NoScore THEN 0 ELSE doc.score

\* vector_store.similarity_search(query, k): the index ranks the namespace's
\* passages; the model ranks them in insertion order.
SimilaritySearch(ns, k) == SubSeq(store[ns], 1, Min(k, Len(store[ns])))

----------------------------------------------------------------------------
(* Rerankers *)

\* list.sort(key=..., reverse=True) over (item, key) pairs: a stable sort,
\* descending. The last pair goes after every pair of a key at least its own.
\* A mutation: the last pair goes before the pairs of its own key.
RECURSIVE PlaceBeforeEquals(_, _)
PlaceBeforeEquals(p, s) ==
    IF s = <<>> THEN <<p>>
    ELSE IF Head(s).key > p.key THEN <<Head(s)>> \o PlaceBeforeEquals(p, Tail(s))
    ELSE <<p>> \o s

RECURSIVE Place(_, _)
Place(p, s) ==
    IF s = <<>> THEN <<p>>
    ELSE IF Head(s).key >= p.key THEN <<Head(s)>> \o Place(p, Tail(s))
    ELSE <<p>> \o s

RECURSIVE SortPairsDesc(_)
SortPairsDesc(pairs) ==
    IF pairs = <<>> THEN <<>>
    ELSE Place(pairs[Len(pairs)], SortPairsDesc(SubSeq(pairs, 1, Len(pairs) - 1)))

\* docs sorted by keys[i], descending, stable.
StableSortDesc(docs, keys) ==
    LET sorted == SortPairsDesc([i \in DOMAIN docs |-> [doc |-> docs[i], key |-> keys[i]]])
    IN  [i \in DOMAIN sorted |-> sorted[i].doc]

\* `if top_k:` and `top_k or len(documents)`: None and 0 are falsy.
NoTopK == -1

HasTopK(top_k) == top_k # NoTopK /\ top_k # 0

\* A mutation: the list is never cut.
TruncateNever(docs, top_k) == docs

Truncate(docs, top_k) ==
    IF HasTopK(top_k) THEN SubSeq(docs, 1, Min(top_k, Len(docs))) ELSE docs

\* BasicReranker.rerank_documents
BasicRerank(docs, top_k) ==
    Truncate(StableSortDesc(docs, [i \in DOMAIN docs |-> ScoreOf(docs[i])]), top_k)

\* TfidfVectorizer lower-cases a text before it counts its words.
Token(text) == IF text = "X" THEN "x" ELSE text

\* The TF-IDF cosine similarities, in tenths: a text is a word, and a query is
\* similar to the passages whose word it holds.
QuerySim(query, text) == IF Token(text) \in { Token(w) : w \in Range(query) } THEN 10 ELSE 0

DocSim(t1, t2) == IF Token(t1) = Token(t2) THEN 10 ELSE 0

\* config.mmr_lambda (0.7), in tenths.
MmrLambda == 7

Max2(a, b) == IF a > b THEN a ELSE b

\* max(f[i] for i in idxs), idxs not empty.
RECURSIVE MaxOver(_, _)
MaxOver(idxs, f) ==
    IF Len(idxs) = 1 THEN f[idxs[1]] ELSE Max2(f[Head(idxs)], MaxOver(Tail(idxs), f))

\* A mutation: the last index of idxs reaching the maximum.
LastArgMax(idxs, f) ==
    LET m == MaxOver(idxs, f)
        j == CHOOSE j \in DOMAIN idxs :
                 /\ f[idxs[j]] = m
                 /\ \A h \in DOMAIN idxs : h > j => f[idxs[h]] # m
    IN  idxs[j]

\* np.argmax, and max(..., key=...): the first index of idxs reaching the maximum.
FirstArgMax(idxs, f) ==
    LET m == MaxOver(idxs, f)
        j == CHOOSE j \in DOMAIN idxs :
                 /\ f[idxs[j]] = m
                 /\ \A h \in DOMAIN idxs : h < j => f[idxs[h]] # m
    IN  idxs[j]

Remove(idxs, x) == SelectSeq(idxs, LAMBDA y : y # x)

\* The MMR loop: selected and remaining indices, until target_count.
RECURSIVE MmrLoop(_, _, _, _, _, _)
MmrLoop(selected, remaining, qs, ds, lam, target) ==
    IF ~(Len(selected) < target /\ remaining # <<>>) THEN selected
    ELSE LET mmr_scores == [i \in Range(remaining) |->
                               lam * qs[i] - (10 - lam) * MaxOver(selected, ds[i])]
             best_idx == FirstArgMax(remaining, mmr_scores)
         IN  MmrLoop(Append(selected, best_idx), Remove(remaining, best_idx),
                     qs, ds, lam, target)

\* A mutation: the passages are taken in the order given.
InputOrderIndices(n, qs, ds, lam, top_k) ==
    [i \in 1 .. Min(IF HasTopK(top_k) THEN top_k ELSE n, n) |-> i]

\* The indices MMR selects among n passages, in order.
MmrIndices(n, qs, ds, lam, top_k) ==
    LET all == [i \in 1 .. n |-> i]
        first_idx == FirstArgMax(all, qs)
        target_count == Min(IF HasTopK(top_k) THEN top_k ELSE n, n)
    IN  MmrLoop(<<first_idx>>, Remove(all, first_idx), qs, ds, lam, target_count)

\* selected_indices when the loop has ended, for two passages or more.
MmrSelected(query, docs, top_k, lam) ==
    LET n == Len(docs)
        qs == [i \in 1 .. n |-> QuerySim(query, docs[i].text)]
        ds == [i \in 1 .. n |-> [j \in 1 .. n |-> DocSim(docs[i].text, docs[j].text)]]
    IN  MmrIndices(n, qs, ds, lam, top_k)

\* The place of x in the sequence idxs that holds it once.
IndexOf(idxs, x) == CHOOSE r \in DOMAIN idxs : idxs[r] = x

\* A mutation: the similarity is written over the passage's score.
MmrLeavesScoreOverwritten(query, docs, top_k, lam, fails) ==
    IF Len(docs) <= 1 \/ fails THEN docs
    ELSE LET sel == MmrSelected(query, docs, top_k, lam)
         IN  [i \in DOMAIN docs |->
                 IF i \in Range(sel)
                 THEN [docs[i] EXCEPT !.mmr_rank = IndexOf(sel, i),
                                      !.score = QuerySim(query, docs[i].text)]
                 ELSE docs[i]]

\* The list given to MMRReranker.rerank_documents as the call leaves it: the
\* metadata of the selected passages is written in place, doc.metadata
\* ['mmr_rank'] = i + 1 and ['original_score'] = the query similarity.
MmrLeaves(query, docs, top_k, lam, fails) ==
    IF Len(docs) <= 1 \/ fails THEN docs
    ELSE LET sel == MmrSelected(query, docs, top_k, lam)
         IN  [i \in DOMAIN docs |->
                 IF i \in Range(sel)
                 THEN [docs[i] EXCEPT !.mmr_rank = IndexOf(sel, i),
                                      !.original_score = QuerySim(query, docs[i].text)]
                 ELSE docs[i]]

\* A mutation: on a failure the passages come back in the order given.
MmrRerankKeepsOrder(query, docs, top_k, lam, fails) ==
    IF Len(docs) <= 1 THEN docs ELSE Truncate(docs, top_k)

\* MMRReranker.rerank_documents; lam: lambda_mult in tenths; fails: the
\* similarity computation raised.
MmrRerank(query, docs, top_k, lam, fails) ==
    IF Len(docs) <= 1 THEN docs
    ELSE IF fails THEN BasicRerank(docs, top_k)
    ELSE LET sel == MmrSelected(query, docs, top_k, lam)
             left == MmrLeaves(query, docs, top_k, lam, fails)
         IN  [r \in 1 .. Len(sel) |-> left[sel[r]]]

\* `except Exception` of MMRReranker.rerank_documents: every failure of the
\* computation is caught.
RerankCatches(e) == TRUE

\* rerank_documents of the configured reranker: MMRReranker(lambda_mult =
\* config.mmr_lambda) or BasicReranker().
RerankDocuments(reranker, query, docs, top_k, fails) ==
    IF reranker = "mmr" THEN MmrRerank(query, docs, top_k, config.mmr_lambda, fails)
    ELSE BasicRerank(docs, top_k)

\* The list given to rerank_documents as the call leaves it; BasicReranker
\* writes nothing.
LeavesDocuments(reranker, query, docs, top_k, fails) ==
    IF reranker = "mmr" THEN MmrLeaves(query, docs, top_k, config.mmr_lambda, fails)
    ELSE docs

----------------------------------------------------------------------------
(* RetrieverFactory: the retrievers it builds *)

Retriever(kind, ns, k, reranker, subs, docs) ==
    [kind |-> kind, ns |-> ns, k |-> k, reranker |-> reranker, subs |-> subs, docs |-> docs]

\* vector_store.as_retriever(search_kwargs={"k": k})
AsRetriever(ns, k) == Retriever("vector", ns, k, "", <<>>, <<>>)

\* BaseReranker.rerank_retriever
RerankRetriever(reranker, retriever) ==
    Retriever("reranked", retriever.ns, retriever.k, reranker, <<retriever>>, <<>>)

CreateVectorRetriever(ns, k) ==
    IF config.reranker_type = "mmr" THEN RerankRetriever("mmr", AsRetriever(ns, k))
    ELSE IF config.reranker_type = "basic" THEN RerankRetriever("basic", AsRetriever(ns, k))
    ELSE AsRetriever(ns, k)

\* fails: similarity_search or BM25Retriever.from_texts raised.
CreateBm25Retriever(ns, k, fails) ==
    LET all_docs == store[ns]
    IN  IF fails THEN CreateVectorRetriever(ns, k)
        ELSE IF all_docs = <<>> THEN CreateVectorRetriever(ns, k)
        ELSE Retriever("bm25", ns, k, "", <<>>, all_docs)

\* isinstance(bm25_retriever, type(vector_retriever)): the class of what
\* as_retriever returns.
IsVectorStoreRetriever(r) == r.kind = "vector"

\* lexical_fails: the BM25 index could not be built; fails: the ensemble's
\* construction raised.
CreateHybridRetriever(ns, k, lexical_fails, fails) ==
    LET vector_retriever == AsRetriever(ns, k)
        bm25_retriever == CreateBm25Retriever(ns, k, lexical_fails)
    IN  IF fails THEN CreateVectorRetriever(ns, k)
        ELSE IF IsVectorStoreRetriever(bm25_retriever) THEN vector_retriever
        ELSE Retriever("ensemble", ns, k, "", <<vector_retriever, bm25_retriever>>, <<>>)

\* fails: the backend's construction or MultiQueryRetriever.from_llm raised.
CreateMultiQueryRetriever(ns, k, fails) ==
    IF fails THEN CreateVectorRetriever(ns, k)
    ELSE Retriever("multi_query", ns, k, "", <<AsRetriever(ns, k)>>, <<>>)

CreateContextualCompressionRetriever(ns, k, fails) ==
    IF fails THEN CreateVectorRetriever(ns, k)
    ELSE Retriever("contextual_compression", ns, k, "", <<AsRetriever(ns, k)>>, <<>>)

\* What building a retriever can meet, by mode: "ok"; "lexical_fail" (the BM25
\* index cannot be built); "fail" (another step of the mode raises inside its
\* try).
BuildOutcomes(retriever_type) ==
    CASE retriever_type = "bm25" -> {"ok", "lexical_fail"}
      [] retriever_type = "hybrid" -> {"ok", "lexical_fail", "fail"}
      [] retriever_type \in {"multi_query", "contextual_compression"} -> {"ok", "fail"}
      [] OTHER -> {"ok"}

\* RetrieverFactory.create_retriever, retriever_type from the configuration.
CreateRetriever(ns, k, outcome) ==
    LET retriever_type == config.retriever_type
    IN  CASE retriever_type = "vector" -> CreateVectorRetriever(ns, k)
          [] retriever_type = "bm25" -> CreateBm25Retriever(ns, k, outcome = "lexical_fail")
          [] retriever_type = "hybrid" ->
                CreateHybridRetriever(ns, k, outcome = "lexical_fail", outcome = "fail")
          [] retriever_type = "multi_query" -> CreateMultiQueryRetriever(ns, k, outcome = "fail")
          [] retriever_type = "contextual_compression" ->
                CreateContextualCompressionRetriever(ns, k, outcome = "fail")
          [] OTHER -> CreateVectorRetriever(ns, k)

\* The modes that make a fresh LLMFactory and ask it for the default backend.
BuildsBackend(outcome) ==
    config.retriever_type \in {"multi_query", "contextual_compression"} /\ outcome = "ok"

----------------------------------------------------------------------------
(* Running a retriever *)

Reverse(s) == [i \in DOMAIN s |-> s[Len(s) + 1 - i]]

\* BM25Retriever: the k best of the indexed passages, the passages holding the
\* query's word first (the library takes the reversed ascending order).
Bm25Search(docs, query, k) ==
    LET rev == Reverse(docs)
        ranked == StableSortDesc(rev, [i \in DOMAIN rev |-> QuerySim(query, rev[i].text)])
    IN  SubSeq(ranked, 1, Min(k, Len(ranked)))

\* config.hybrid_alpha (0.6), in tenths.
HybridAlpha == 6

\* EnsembleRetriever's constant c of reciprocal rank fusion.
RrfC == 60

\* weight / (rank + c), scaled to integers (exact for ranks up to 4).
RrfScale == 61 * 62 * 63 * 64

RECURSIVE SumOver(_, _)
SumOver(idxs, f) == IF idxs = <<>> THEN 0 ELSE f[Head(idxs)] + SumOver(Tail(idxs), f)

Indices(s) == [i \in DOMAIN s |-> i]

\* The documents of a list, the first of each page_content kept.
UniqueByText(docs) ==
    LET keep == SelectSeq(Indices(docs),
                          LAMBDA i : \A h \in 1 .. i - 1 : docs[h].text # docs[i].text)
    IN  [i \in DOMAIN keep |-> docs[keep[i]]]

\* The documents of a list, the first of each equal document kept.
UniqueDocs(docs) ==
    LET keep == SelectSeq(Indices(docs), LAMBDA i : \A h \in 1 .. i - 1 : docs[h] # docs[i])
    IN  [i \in DOMAIN keep |-> docs[keep[i]]]

\* EnsembleRetriever.weighted_reciprocal_rank over two lists.
WeightedReciprocalRank(vector_docs, lexical_docs, alpha) ==
    LET Part(list, weight, text) ==
            SumOver(Indices(list),
                    [r \in DOMAIN list |->
                        IF list[r].text = text THEN weight * (RrfScale \div (r + RrfC)) ELSE 0])
        Score(text) == Part(vector_docs, alpha, text) + Part(lexical_docs, 10 - alpha, text)
        unique == UniqueByText(vector_docs \o lexical_docs)
    IN  StableSortDesc(unique, [i \in DOMAIN unique |-> Score(unique[i].text)])

\* retriever.get_relevant_documents(query) when nothing raises. mmr_fails: the
\* MMR computation raises (and falls back); drops: the extraction keeps nothing.
RECURSIVE GetRelevantDocuments(_, _, _, _)
GetRelevantDocuments(r, query, mmr_fails, drops) ==
    CASE r.kind = "vector" -> SimilaritySearch(r.ns, r.k)
      [] r.kind = "reranked" ->
            RerankDocuments(r.reranker, query,
                            GetRelevantDocuments(r.subs[1], query, mmr_fails, drops),
                            NoTopK, mmr_fails)
      [] r.kind = "bm25" -> Bm25Search(r.docs, query, r.k)
      [] r.kind = "ensemble" ->
            WeightedReciprocalRank(GetRelevantDocuments(r.subs[1], query, mmr_fails, drops),
                                   GetRelevantDocuments(r.subs[2], query, mmr_fails, drops),
                                   config.hybrid_alpha)
      [] r.kind = "multi_query" ->
            UniqueDocs(GetRelevantDocuments(r.subs[1], query, mmr_fails, drops))
      [] r.kind = "contextual_compression" ->
            IF drops THEN <<>> ELSE GetRelevantDocuments(r.subs[1], query, mmr_fails, drops)

\* Whether running r makes a call of its own beyond the vector search: a
\* generation call (paraphrases, extraction), the lexical scoring, the fusion.
HasInternalStep(r) == r.kind \in {"bm25", "ensemble", "multi_query", "contextual_compression"}

----------------------------------------------------------------------------
(* Results and call frames *)

\* The fixed answer of the empty response.
CannedAnswer == <<"canned", "no relevant information">>

\* f"error: {str(e)}"
ErrorAnswer(e) == <<"error", e>>

LlmAnswer(text) == <<"llm", text>>

\* A result. A field the shape does not carry reads "" (error), -1
\* (retrieved_docs); kind is the model's name of the shape.
Result(kind, question, answer, sources, provider, retrieved_docs, error) ==
    [kind |-> kind, question |-> question, answer |-> answer, sources |-> sources,
     provider |-> provider, retrieved_docs |-> retrieved_docs, error |-> error]

NoResult == Result("none", <<>>, <<"", "">>, <<>>, "", -1, "")

\* set_provider's return value, as a result.
BoolResult(b) == Result(IF b THEN "true" ELSE "false", <<>>, <<"", "">>, <<>>, "", -1, "")

\* _format_context: the parts "[文档{i}] ...\n{content}", numbered from 1 by
\* enumerate(documents, 1) (the chunk texts of the model have no blanks for
\* strip() to take).
FormatContext(documents) ==
    [i \in DOMAIN documents |-> [number |-> i, content |-> documents[i].text]]

\* A mutation: the sources are listed last to first.
FormatSourcesReversed(documents) ==
    [i \in DOMAIN documents |->
        [content |-> documents[Len(documents) + 1 - i].text,
         metadata |-> [origin |-> documents[Len(documents) + 1 - i].origin,
                       mmr_rank |-> documents[Len(documents) + 1 - i].mmr_rank,
                       original_score |-> documents[Len(documents) + 1 - i].original_score],
         score |-> ScoreOf(documents[Len(documents) + 1 - i])]]

\* _format_sources
FormatSources(documents) ==
    [i \in DOMAIN documents |->
        [content |-> documents[i].text,
         metadata |-> [origin |-> documents[i].origin,
                       mmr_rank |-> documents[i].mmr_rank,
                       original_score |-> documents[i].original_score],
         score |-> ScoreOf(documents[i])]]

NoRetriever == Retriever("none", <<>>, 0, "", <<>>, <<>>)

\* What the rewrite chain does: raises, or answers a text.
RewriteOutcomes ==
    {[raises |-> TRUE, text |-> <<>>]} \cup {[raises |-> FALSE, text |-> t] : t \in RewriteOutputs}

\* No rewrite call was made.
NoRewrite == [raises |-> FALSE, text |-> <<"-">>]

\* A call's frame: its arguments, its locals, where it stands (pc), and its
\* history: the default provider when the call began (before), the generation
\* calls it made to rewrite and to synthesize and what the rewrite call did
\* (rewrite_out), the calls of get_relevant_documents it made (retrieve_calls),
\* the number of passages retrieval returned (retrieved, -1 before it returns), the backend set_provider probed and what the probe did
\* (probed, probe_out), and what its retrieval mode met (failed): "lexical"
\* (no lexical index: the namespace was empty or the index could not be
\* built), "build" (another step of building the retriever raised), "run" (a
\* step of the mode raised while the query ran). A call of rerank_documents
\* keeps the list it was given (documents), that list as the call leaves it
\* (documents_after), the list it returns (docs), and failed = "mmr" when the
\* similarity computation raised. A query with history keeps the history text
\* it gave to the rewrite chain (rewrite_history) and to the synthesis chain
\* (synth_history); a query keeps the context it gave to the synthesis chain
\* (context), and the notebook and question of the HTTP request that made it
\* (req_notebook, req_question).
IdleFrame ==
    [op |-> "idle", pc |-> "idle",
     question |-> <<>>, notebook_id |-> "", top_k |-> 0, provider |-> None,
     chat_history |-> NoHistory,
     q |-> <<>>, llm_provider |-> "", llm |-> 0, retriever |-> NoRetriever,
     documents |-> <<>>, documents_after |-> <<>>, docs |-> <<>>, e |-> "", before |-> "",
     rewrite_calls |-> 0, rewrite_out |-> NoRewrite, retrieve_calls |-> 0,
     retrieved |-> -1, synth_calls |-> 0,
     failed |-> "", probed |-> "", probe_out |-> "",
     rewrite_history |-> <<>>, synth_history |-> <<>>, context |-> <<>>,
     req_notebook |-> "", req_question |-> <<>>,
     result |-> NoResult]

AllIdle == \A c \in CallIds : calls[c].op = "idle"

\* The model constructs at most MaxBuilt backends per name: no call starts
\* once a name has reached it.
CanBuild == \A p \in SupportedProviders : built[p] < MaxBuilt

Frame(c) == calls[c]

Goto(c, pc) == calls' = [calls EXCEPT ![c].pc = pc]

\* A mutation: the call starts over when a stage raises.
RaiseAndRetry(c, e) == calls' = [calls EXCEPT ![c].pc = "get_llm", ![c].e = e]

\* An exception e reaches the handler of query / query_with_history.
Raise(c, e) == calls' = [calls EXCEPT ![c].pc = "except", ![c].e = e]

----------------------------------------------------------------------------
(* NotebookManager.add_documents *)

TotalDocs == LET ns == CHOOSE f \in [1 .. Cardinality(Namespaces) -> Namespaces] :
                           Range(f) = Namespaces
             IN  SumOver(Indices(ns), [i \in DOMAIN ns |-> Len(store[ns[i]])])

\* One text, one chunk: added to the notebook's own collection.
AddDocuments(notebook_id, text) ==
    /\ TotalDocs < MaxDocs
    /\ store' = [store EXCEPT ![CollectionName(notebook_id)] =
                     Append(@, Passage(notebook_id, text))]
    /\ UNCHANGED <<config, embeddings, current_provider, llms, built, activated, calls>>

----------------------------------------------------------------------------
(* LangChainRAGPipeline.query and query_with_history, step by step *)

\* The frame of query(question, notebook_id, top_k, provider) as it begins:
\* llm_provider = provider or self.current_provider.
QueryFrame(question, notebook_id, top_k, provider) ==
    [IdleFrame EXCEPT !.op = "query", !.pc = "get_llm",
                      !.question = question, !.q = question,
                      !.notebook_id = notebook_id, !.top_k = top_k,
                      !.provider = provider, !.before = current_provider,
                      !.llm_provider = Or(provider, current_provider)]

\* The call begins.
StartQuery(c, question, notebook_id, top_k, provider) ==
    /\ Frame(c).op = "idle"
    /\ CanBuild
    /\ calls' = [calls EXCEPT ![c] = QueryFrame(question, notebook_id, top_k, provider)]
    /\ UNCHANGED <<config, embeddings, current_provider, llms, built, activated, store>>

StartQueryWithHistory(c, question, notebook_id, chat_history, top_k, provider) ==
    /\ Frame(c).op = "idle"
    /\ CanBuild
    /\ calls' = [calls EXCEPT ![c] =
                    [IdleFrame EXCEPT !.op = "query_with_history", !.pc = "get_llm",
                                      !.question = question, !.q = question,
                                      !.notebook_id = notebook_id, !.top_k = top_k,
                                      !.chat_history = chat_history,
                                      !.provider = provider, !.before = current_provider,
                                      !.llm_provider = Or(provider, current_provider)]]
    /\ UNCHANGED <<config, embeddings, current_provider, llms, built, activated, store>>

\* The calls that probe a backend: set_provider and test_provider.
Probes(c) == Frame(c).op \in {"set_provider", "test_provider"}

\* What follows the backend: the probe, or the components in a query.
AfterLlm(c) == IF Probes(c) THEN "probe" ELSE "components"

\* An exception in the call: set_provider and test_provider return False, a
\* query handles it.
Fail(c, e) ==
    IF Probes(c)
    THEN calls' = [calls EXCEPT ![c].pc = "done", ![c].result = BoolResult(FALSE)]
    ELSE Raise(c, e)

\* get_llm: provider = provider or self.config.llm_provider
LlmName(c) == Or(Frame(c).llm_provider, DefaultProvider)

\* A mutation: the lookup never finds the name.
CachedNever(name) == FALSE

\* `if provider in self._llms`
Cached(name) == name \in SupportedProviders /\ llms[name] # 0

\* LLMFactory.get_llm, the lookup.
GetLlm(c) ==
    /\ Frame(c).pc = "get_llm"
    /\ LET name == LlmName(c)
       IN  IF Cached(name)
           THEN calls' = [calls EXCEPT ![c].llm = llms[name], ![c].pc = AfterLlm(c)]
           ELSE Goto(c, "create_llm")
    /\ UNCHANGED <<config, embeddings, current_provider, llms, built, activated, store>>

\* LLMFactory.get_llm on a miss: _create_llm, then self._llms[provider] = llm.
\* raises: the backend's constructor raised.
CreateLlm(c, raises) ==
    /\ Frame(c).pc = "create_llm"
    /\ LET name == LlmName(c)
       IN  IF name \notin SupportedProviders
           THEN /\ Fail(c, "Unsupported LLM provider")
                /\ UNCHANGED <<llms, built>>
           ELSE IF raises
           THEN /\ Fail(c, "backend construction")
                /\ UNCHANGED <<llms, built>>
           ELSE LET id == Min(built[name] + 1, MaxBuilt)
                IN  /\ built' = [built EXCEPT ![name] = id]
                    /\ llms' = [llms EXCEPT ![name] = id]
                    /\ calls' = [calls EXCEPT ![c].llm = id, ![c].pc = AfterLlm(c)]
    /\ UNCHANGED <<config, embeddings, current_provider, activated, store>>

\* config.embedding_provider, the configured default.
EmbeddingProvider == "openai"

\* The names EmbeddingFactory._create_embeddings knows.
SupportedEmbeddings == {"openai", "hf", "huggingface"}

\* EmbeddingFactory.get_embeddings when nothing raises: the name the handle it
\* returns was built for. The one slot is filled by the first request.
GetEmbeddings(provider) ==
    IF embeddings = None THEN Or(provider, EmbeddingProvider) ELSE embeddings

\* Whether get_embeddings(provider) constructs a handle: the slot is empty.
CreatesEmbeddings == embeddings = None

\* get_embeddings() and get_vector_store(collection_name=...): either raises
\* ("embeddings": the handle's constructor, "vector_store").
GetComponents(c, outcome) ==
    /\ Frame(c).pc = "components"
    /\ outcome = "embeddings" => CreatesEmbeddings
    /\ IF outcome = "ok" THEN Goto(c, "create_retriever") ELSE Raise(c, outcome)
    /\ embeddings' = IF outcome = "embeddings" THEN embeddings ELSE GetEmbeddings(None)
    /\ UNCHANGED <<config, current_provider, llms, built, activated, store>>

\* What the mode met while the retriever was built.
BuildFailure(ns, outcome) ==
    IF config.retriever_type \in {"bm25", "hybrid"}
       /\ (outcome = "lexical_fail" \/ (outcome = "ok" /\ store[ns] = <<>>))
    THEN "lexical"
    ELSE IF outcome = "ok" THEN "" ELSE "build"

\* retriever_factory.create_retriever(vector_store, search_kwargs={"k": top_k});
\* "raise": as_retriever raised outside every try of the factory.
CreateRetrieverStep(c, outcome) ==
    /\ Frame(c).pc = "create_retriever"
    /\ LET ns == CollectionName(Frame(c).notebook_id)
       IN  IF outcome = "raise"
           THEN /\ Raise(c, "retriever")
                /\ UNCHANGED built
           ELSE /\ calls' = [calls EXCEPT
                       ![c].retriever = CreateRetriever(ns, Frame(c).top_k, outcome),
                       ![c].failed = BuildFailure(ns, outcome),
                       ![c].pc = IF Frame(c).op = "query_with_history"
                                    /\ HasHistory(Frame(c).chat_history)
                                 THEN "rewrite" ELSE "retrieve"]
                /\ built' = IF BuildsBackend(outcome)
                            THEN [built EXCEPT ![DefaultProvider] = Min(@ + 1, MaxBuilt)]
                            ELSE built
    /\ UNCHANGED <<config, embeddings, current_provider, llms, activated, store>>

\* _rewrite_question_with_history
RewriteQuestionWithHistory(question, chat_history, outcome) ==
    IF ~HasHistory(chat_history) THEN question
    ELSE IF outcome.raises THEN question
    ELSE Strip(outcome.text)

\* `if chat_history: question = self._rewrite_question_with_history(...)`
Rewrite(c, outcome) ==
    /\ Frame(c).pc = "rewrite"
    /\ calls' = [calls EXCEPT
            ![c].q = RewriteQuestionWithHistory(Frame(c).q, Frame(c).chat_history, outcome),
            ![c].rewrite_calls = @ + 1,
            ![c].rewrite_out = outcome,
            ![c].rewrite_history = FormatChatHistory(Frame(c).chat_history),
            ![c].pc = "retrieve"]
    /\ UNCHANGED <<config, embeddings, current_provider, llms, built, activated, store>>

RECURSIVE UsesMmr(_)
UsesMmr(r) ==
    \/ r.kind = "reranked" /\ r.reranker = "mmr"
    \/ \E i \in DOMAIN r.subs : UsesMmr(r.subs[i])

\* What running the retriever can meet: "ok"; "search_raise" (the vector
\* search raises); "internal_raise" (a step of the mode itself raises: the
\* paraphrase or extraction call, the lexical scoring, the fusion).
RunOutcomes(r) ==
    {"ok", "search_raise"} \cup (IF HasInternalStep(r) THEN {"internal_raise"} ELSE {})

\* The empty response of both queries.
EmptyResponse(question, provider) ==
    Result("empty", question, CannedAnswer, <<>>, provider, 0, "")

\* A mutation: the check for an empty retrieval is missing.
NoRelevantDocsNever(relevant_docs) == FALSE

\* `if not relevant_docs:`
NoRelevantDocs(relevant_docs) == relevant_docs = <<>>

\* relevant_docs = retriever.get_relevant_documents(question), and the
\* `if not relevant_docs` that follows.
Retrieve(c, outcome, mmr_fails, drops) ==
    /\ Frame(c).pc = "retrieve"
    /\ IF outcome = "ok"
       THEN LET relevant_docs ==
                    GetRelevantDocuments(Frame(c).retriever, Frame(c).q, mmr_fails, drops)
            IN  IF NoRelevantDocs(relevant_docs)
                THEN calls' = [calls EXCEPT
                         ![c].pc = "done", ![c].retrieved = Len(relevant_docs),
                         ![c].retrieve_calls = @ + 1,
                         ![c].result = EmptyResponse(Frame(c).q, Frame(c).llm_provider)]
                ELSE calls' = [calls EXCEPT ![c].docs = relevant_docs,
                                            ![c].retrieved = Len(relevant_docs),
                                            ![c].retrieve_calls = @ + 1,
                                            ![c].pc = "synthesize"]
       ELSE calls' = [calls EXCEPT
                ![c].pc = "except", ![c].e = "retrieval",
                ![c].retrieve_calls = @ + 1,
                ![c].failed = IF outcome = "internal_raise" THEN "run" ELSE @]
    /\ UNCHANGED <<config, embeddings, current_provider, llms, built, activated, store>>

\* history_text = self._format_chat_history(chat_history or []), in
\* query_with_history; query has no history text.
SynthesisHistory(c) ==
    IF Frame(c).op = "query_with_history" THEN FormatChatHistory(Frame(c).chat_history)
    ELSE <<>>

\* The context, the chain, answer = rag_chain.invoke(question), the result.
Synthesize(c, raises) ==
    /\ Frame(c).pc = "synthesize"
    /\ IF raises
       THEN calls' = [calls EXCEPT ![c].pc = "except", ![c].e = "generation",
                                   ![c].synth_history = SynthesisHistory(c),
                                   ![c].context = FormatContext(Frame(c).docs),
                                   ![c].synth_calls = @ + 1]
       ELSE calls' = [calls EXCEPT
                ![c].pc = "done", ![c].synth_calls = @ + 1,
                ![c].synth_history = SynthesisHistory(c),
                ![c].context = FormatContext(Frame(c).docs),
                ![c].result = Result("ok", Frame(c).q, LlmAnswer("answer"),
                                     FormatSources(Frame(c).docs), Frame(c).llm_provider,
                                     Len(Frame(c).docs), "")]
    /\ UNCHANGED <<config, embeddings, current_provider, llms, built, activated, store>>

\* A mutation: the handler catches ValueError alone.
CatchesValueErrorOnly(e) == e = "Unsupported LLM provider"

\* `except Exception`: every exception a stage raises is caught.
Catches(e) == TRUE

\* except Exception as e: the error-shaped result. An exception the handler
\* does not catch leaves the call as an exception ("raised").
Except(c) ==
    /\ Frame(c).pc = "except"
    /\ calls' = [calls EXCEPT
            ![c].pc = "done",
            ![c].result =
                IF Catches(Frame(c).e)
                THEN Result("error", Frame(c).q, ErrorAnswer(Frame(c).e), <<>>,
                            Or(Frame(c).provider, current_provider), -1, Frame(c).e)
                ELSE Result("raised", <<>>, <<"", "">>, <<>>, "", -1, Frame(c).e)]
    /\ UNCHANGED <<config, embeddings, current_provider, llms, built, activated, store>>

\* The caller takes the result.
Return(c) ==
    /\ Frame(c).pc = "done"
    /\ calls' = [calls EXCEPT ![c] = IdleFrame]
    /\ UNCHANGED <<config, embeddings, current_provider, llms, built, activated, store>>

----------------------------------------------------------------------------
(* LangChainRAGPipeline.set_provider *)

StartSetProvider(c, provider) ==
    /\ Frame(c).op = "idle"
    /\ CanBuild
    /\ calls' = [calls EXCEPT ![c] =
                    [IdleFrame EXCEPT !.op = "set_provider", !.pc = "get_llm",
                                      !.provider = provider, !.llm_provider = provider,
                                      !.before = current_provider]]
    /\ UNCHANGED <<config, embeddings, current_provider, llms, built, activated, store>>

\* What llm.invoke("Hello") does: raises, answers nothing, answers.
ProbeOutcomes == {"raise", "empty", "content"}

\* A mutation: any response is accepted, an empty one too.
ProbeAcceptsAnyResponse(outcome) == TRUE

\* `if test_response.content:` (reached when invoke returned)
ProbeAccepts(outcome) == outcome = "content"

\* A mutation: bool() of any response is True.
HasContentAlways(outcome) == TRUE

\* `bool(response.content)` (reached when invoke returned)
HasContent(outcome) == outcome = "content"

\* llm.invoke("Hello"); in set_provider the swap follows, in test_provider
\* `return bool(response.content)`.
Probe(c, outcome) ==
    /\ Frame(c).pc = "probe"
    /\ IF Frame(c).op = "set_provider"
       THEN /\ IF outcome # "raise" /\ ProbeAccepts(outcome)
               THEN /\ current_provider' = Frame(c).provider
                    /\ calls' = [calls EXCEPT
                            ![c].pc = "done", ![c].result = BoolResult(TRUE),
                            ![c].probed = LlmName(c), ![c].probe_out = outcome]
               ELSE /\ UNCHANGED current_provider
                    /\ calls' = [calls EXCEPT
                            ![c].pc = "done", ![c].result = BoolResult(FALSE),
                            ![c].probed = LlmName(c), ![c].probe_out = outcome]
            /\ activated' = IF outcome = "content" THEN activated \cup {Frame(c).provider}
                            ELSE activated
       ELSE /\ calls' = [calls EXCEPT
                    ![c].pc = "done",
                    ![c].result = BoolResult(outcome # "raise" /\ HasContent(outcome)),
                    ![c].probed = LlmName(c), ![c].probe_out = outcome]
            /\ UNCHANGED <<current_provider, activated>>
    /\ UNCHANGED <<config, embeddings, llms, built, store>>

----------------------------------------------------------------------------
(* LLMFactory.test_provider and get_available_providers, called directly *)

StartTestProvider(c, provider) ==
    /\ Frame(c).op = "idle"
    /\ CanBuild
    /\ calls' = [calls EXCEPT ![c] =
                    [IdleFrame EXCEPT !.op = "test_provider", !.pc = "get_llm",
                                      !.provider = provider, !.llm_provider = provider,
                                      !.before = current_provider]]
    /\ UNCHANGED <<config, embeddings, current_provider, llms, built, activated, store>>

\* The names _create_llm knows, in the order get_available_providers asks.
ProviderOrder == <<"openai", "deepseek", "gemini", "doubao">>

\* A mutation: the names whose backend is cached.
CachedProviders == SelectSeq(ProviderOrder, LAMBDA p : llms[p] # 0)

\* LLMFactory.get_available_providers: the names whose api key is not empty.
AvailableProviders == SelectSeq(ProviderOrder, LAMBDA p : p \in config.api_keys)

\* A list of names, as a result.
ListResult(names) == Result("list", <<>>, names, <<>>, "", -1, "")

\* pipeline.get_available_providers(): one step, it reads the configuration.
GetAvailableProviders(c) ==
    /\ Frame(c).op = "idle"
    /\ calls' = [calls EXCEPT ![c] =
                    [IdleFrame EXCEPT !.op = "get_available_providers", !.pc = "done",
                                      !.before = current_provider,
                                      !.result = ListResult(AvailableProviders)]]
    /\ UNCHANGED <<config, embeddings, current_provider, llms, built, activated, store>>

----------------------------------------------------------------------------
(* EmbeddingFactory.get_embeddings, called directly *)

\* Names a caller passes: none, the supported ones, an unsupported one.
EmbeddingNames == {None, "openai", "hf", "bogus"}

\* An embedding handle, as a result: provider is the name it was built for.
HandleResult(name) == Result("handle", <<>>, <<"", "">>, <<>>, name, -1, "")

\* get_embeddings(provider): one step. raises: the constructor raised; an
\* unsupported name raises ValueError; nothing catches either.
GetEmbeddingsCall(c, provider, raises) ==
    /\ Frame(c).op = "idle"
    /\ raises => CreatesEmbeddings
    /\ LET name == Or(provider, EmbeddingProvider)
           fails == CreatesEmbeddings /\ (raises \/ name \notin SupportedEmbeddings)
       IN  /\ calls' = [calls EXCEPT ![c] =
                   [IdleFrame EXCEPT
                       !.op = "get_embeddings", !.pc = "done", !.provider = provider,
                       !.result = IF fails
                                  THEN Result("raised", <<>>, <<"", "">>, <<>>, "", -1,
                                              "embeddings")
                                  ELSE HandleResult(GetEmbeddings(provider))]]
           /\ embeddings' = IF fails THEN embeddings ELSE GetEmbeddings(provider)
    /\ UNCHANGED <<config, current_provider, llms, built, activated, store>>

----------------------------------------------------------------------------
(* The specifications *)

\* The configuration: the retrieval mode, the reranker, hybrid_alpha and
\* mmr_lambda in tenths, and the providers whose api key is not empty.
Config(retriever_type, reranker_type, hybrid_alpha, mmr_lambda, api_keys) ==
    [retriever_type |-> retriever_type, reranker_type |-> reranker_type,
     hybrid_alpha |-> hybrid_alpha, mmr_lambda |-> mmr_lambda, api_keys |-> api_keys]

\* Every mode and reranker, the defaults of the weights, one api key.
Configs ==
    { Config(t, r, HybridAlpha, MmrLambda, {DefaultProvider}) :
          t \in RetrieverTypes, r \in RerankerTypes }

\* After construction: the configured default is active, nothing is cached,
\* the index is empty, no call is in flight.
Init ==
    /\ config \in Configs
    /\ current_provider = DefaultProvider
    /\ llms = [p \in SupportedProviders |-> 0]
    /\ embeddings = None
    /\ built = [p \in SupportedProviders |-> 0]
    /\ activated = {}
    /\ store = [ns \in Namespaces |-> <<>>]
    /\ calls = [c \in CallIds |-> IdleFrame]

\* The steps every query takes.
QueryStep(c) ==
    \/ GetLlm(c)
    \/ \E raises \in BOOLEAN : CreateLlm(c, raises)
    \/ \E outcome \in {"ok", "embeddings", "vector_store"} : GetComponents(c, outcome)
    \/ \E outcome \in BuildOutcomes(config.retriever_type) \cup {"raise"} :
           CreateRetrieverStep(c, outcome)
    \/ \E outcome \in RunOutcomes(Frame(c).retriever) :
       \E mmr_fails \in (IF UsesMmr(Frame(c).retriever) THEN BOOLEAN ELSE {FALSE}) :
       \E drops \in (IF Frame(c).retriever.kind = "contextual_compression"
                     THEN BOOLEAN ELSE {FALSE}) :
           Retrieve(c, outcome, mmr_fails, drops)
    \/ \E raises \in BOOLEAN : Synthesize(c, raises)
    \/ Except(c)
    \/ Return(c)

\* The retrieval pipeline, one call at a time: documents are added, and
\* queries run in every retrieval mode, with and without history, with the
\* default provider or an unsupported one.
Next ==
    \/ AllIdle /\ \E nb \in Notebooks, text \in Texts : AddDocuments(nb, text)
    \/ AllIdle /\ \E question \in Questions, nb \in Notebooks, top_k \in TopKs,
                     provider \in {None, "bogus"} :
                      StartQuery(1, question, nb, top_k, provider)
    \/ AllIdle /\ \E question \in Questions, nb \in Notebooks, top_k \in TopKs,
                     chat_history \in Histories :
                      StartQueryWithHistory(1, question, nb, chat_history, top_k, None)
    \/ QueryStep(1)
    \/ \E outcome \in RewriteOutcomes : Rewrite(1, outcome)

Spec == Init /\ [][Next]_vars

\* The provider registry: one notebook holding one passage, vector or
\* multi-query retrieval, api keys for none, one or two providers, and calls
\* that name providers: queries, switches, probes, the list of the available
\* providers, requests for the embedding handle.
InitProviders ==
    /\ config \in { Config(t, "none", HybridAlpha, MmrLambda, keys) :
                         t \in {"vector", "multi_query"},
                         keys \in SUBSET {"openai", "deepseek"} }
    /\ current_provider = DefaultProvider
    /\ llms = [p \in SupportedProviders |-> 0]
    /\ embeddings = None
    /\ built = [p \in SupportedProviders |-> 0]
    /\ activated = {}
    /\ store = [ns \in Namespaces |->
                   IF ns = CollectionName("A") THEN <<Passage("A", "x")>> ELSE <<>>]
    /\ calls = [c \in CallIds |-> IdleFrame]

ProviderCall(c) ==
    \/ \E provider \in {None, "deepseek", "bogus"} : StartQuery(c, <<"x">>, "A", 1, provider)
    \/ \E provider \in ProviderNames : StartSetProvider(c, provider)
    \/ \E provider \in ProviderNames : StartTestProvider(c, provider)
    \/ GetAvailableProviders(c)
    \/ \E provider \in EmbeddingNames, raises \in BOOLEAN :
           GetEmbeddingsCall(c, provider, raises)

ProviderStep(c) ==
    \/ QueryStep(c)
    \/ \E outcome \in ProbeOutcomes : Probe(c, outcome)

\* One call at a time.
NextProviders ==
    \/ AllIdle /\ ProviderCall(1)
    \/ ProviderStep(1)

SpecProviders == InitProviders /\ [][NextProviders]_vars

\* Concurrent calls: vector retrieval over the one passage.
InitConcurrent ==
    /\ InitProviders
    /\ config.retriever_type = "vector"
    /\ config.api_keys = {DefaultProvider}

ConcurrentCall(c) ==
    \/ \E provider \in {None, "deepseek"} : StartQuery(c, <<"x">>, "A", 1, provider)
    \/ \E provider \in {"openai", "deepseek", "bogus", ""} : StartSetProvider(c, provider)

\* The steps of a call; of the failures of a query, the search's and the
\* generation's.
ConcurrentStep(c) ==
    \/ GetLlm(c)
    \/ \E raises \in BOOLEAN : CreateLlm(c, raises)
    \/ GetComponents(c, "ok")
    \/ CreateRetrieverStep(c, "ok")
    \/ \E outcome \in {"ok", "search_raise"} : Retrieve(c, outcome, FALSE, FALSE)
    \/ \E raises \in BOOLEAN : Synthesize(c, raises)
    \/ Except(c)
    \/ Return(c)
    \/ \E outcome \in ProbeOutcomes : Probe(c, outcome)

\* Calls interleave, step by step.
NextConcurrent == \E c \in CallIds : ConcurrentCall(c) \/ ConcurrentStep(c)

SpecConcurrent == InitConcurrent /\ [][NextConcurrent]_vars

----------------------------------------------------------------------------
(* rerank_documents, called directly *)

\* Passages with a score in their metadata.
ScoredPassage(text, score) == [Passage("A", text) EXCEPT !.score = score]

\* The passages handed to a reranker: three contents, two of which differ in
\* case only; one has no score, one the score 0.0, one a higher score.
RerankPassages == { ScoredPassage("x", NoScore), ScoredPassage("y", 1), ScoredPassage("X", 0) }

DocumentLists == UNION { [1 .. n -> RerankPassages] : n \in 0 .. MaxLen }

\* top_k: absent, 0, and values below, at and above the length of a list.
RerankTopKs == {NoTopK, 0, 1, 2, 4}

\* reranker.rerank_documents(query, documents, top_k), the reranker being the
\* configured one; fails: the similarity computation of MMR raises.
RerankDocumentsCall(c, query, documents, top_k, fails) ==
    /\ Frame(c).op = "idle"
    /\ fails => (config.reranker_type = "mmr" /\ Len(documents) > 1)
    /\ calls' = [calls EXCEPT ![c] =
                    [IdleFrame EXCEPT !.op = "rerank_documents", !.pc = "done",
                                      !.q = query, !.documents = documents,
                                      !.top_k = top_k,
                                      !.failed = IF fails THEN "mmr" ELSE "",
                                      !.e = IF fails /\ ~RerankCatches("similarity")
                                            THEN "similarity" ELSE "",
                                      !.documents_after =
                                          LeavesDocuments(config.reranker_type, query,
                                                          documents, top_k, fails),
                                      !.docs = RerankDocuments(config.reranker_type, query,
                                                               documents, top_k, fails)]]
    /\ UNCHANGED <<config, embeddings, current_provider, llms, built, activated, store>>

\* lambda_mult, in tenths: no weight on relevance, a low one, the default.
Lambdas == {0, 3, MmrLambda}

InitRerank ==
    /\ config \in { Config("vector", "basic", HybridAlpha, MmrLambda, {DefaultProvider}) }
                   \cup { Config("vector", "mmr", HybridAlpha, lam, {DefaultProvider}) :
                              lam \in Lambdas }
    /\ current_provider = DefaultProvider
    /\ llms = [p \in SupportedProviders |-> 0]
    /\ embeddings = None
    /\ built = [p \in SupportedProviders |-> 0]
    /\ activated = {}
    /\ store = [ns \in Namespaces |-> <<>>]
    /\ calls = [c \in CallIds |-> IdleFrame]

NextRerank ==
    \/ \E query \in Questions, documents \in DocumentLists, top_k \in RerankTopKs,
          fails \in BOOLEAN :
           RerankDocumentsCall(1, query, documents, top_k, fails)
    \/ Return(1)

SpecRerank == InitRerank /\ [][NextRerank]_vars

----------------------------------------------------------------------------
(* Hybrid retrieval at the ends of its weight *)

\* hybrid_alpha at its ends: 0.0 and 1.0, in tenths.
BoundaryWeights == {0, 10}

\* Hybrid retrieval with the vector weight at its ends, every reranker.
InitHybrid ==
    /\ config \in { Config("hybrid", r, a, MmrLambda, {DefaultProvider}) :
                         r \in RerankerTypes, a \in BoundaryWeights }
    /\ current_provider = DefaultProvider
    /\ llms = [p \in SupportedProviders |-> 0]
    /\ embeddings = None
    /\ built = [p \in SupportedProviders |-> 0]
    /\ activated = {}
    /\ store = [ns \in Namespaces |-> <<>>]
    /\ calls = [c \in CallIds |-> IdleFrame]

SpecHybrid == InitHybrid /\ [][Next]_vars

----------------------------------------------------------------------------
(* main.py: the query endpoint *)

\* A notebook id and a question are both str. The model writes an id as one
\* character and a text as the sequence of its characters: the same str, as
\* a text and as an id.
AsText(id) == <<id>>

AsId(text) == text[1]

\* `req.top_k or 5`
EndpointTopK == 5

\* POST /api/notebooks/{notebook_id}/query, for a notebook the application
\* knows: result = pipeline.query(notebook_id, req.question, top_k=req.top_k
\* or 5). The arguments are positional: query's first parameter is question,
\* its second notebook_id.
QueryNotebook(c, notebook_id, question, top_k) ==
    /\ Frame(c).op = "idle"
    /\ CanBuild
    /\ calls' = [calls EXCEPT ![c] =
                    [QueryFrame(AsText(notebook_id), AsId(question),
                                IF HasTopK(top_k) THEN top_k ELSE EndpointTopK, None)
                         EXCEPT !.req_notebook = notebook_id, !.req_question = question]]
    /\ UNCHANGED <<config, embeddings, current_provider, llms, built, activated, store>>

\* The questions of the requests: the questions of the model, and one whose
\* text is the id of a notebook.
HttpQuestions == Questions \cup { AsText("A") }

\* The collections a query can name: the notebooks' own, and the ones the
\* vector store opens, empty, for another name.
HttpNamespaces ==
    Namespaces \cup { CollectionName(AsId(question)) : question \in HttpQuestions }

\* Vector retrieval without a reranker; no collection holds a passage.
InitHttp ==
    /\ config = Config("vector", "none", HybridAlpha, MmrLambda, {DefaultProvider})
    /\ current_provider = DefaultProvider
    /\ llms = [p \in SupportedProviders |-> 0]
    /\ embeddings = None
    /\ built = [p \in SupportedProviders |-> 0]
    /\ activated = {}
    /\ store = [ns \in HttpNamespaces |-> <<>>]
    /\ calls = [c \in CallIds |-> IdleFrame]

\* Documents are added to the notebooks, and query requests arrive.
NextHttp ==
    \/ AllIdle /\ \E nb \in Notebooks, text \in Texts : AddDocuments(nb, text)
    \/ AllIdle /\ \E nb \in Notebooks, question \in HttpQuestions, top_k \in {NoTopK, 1} :
                      QueryNotebook(1, nb, question, top_k)
    \/ QueryStep(1)

SpecHttp == InitHttp /\ [][NextHttp]_vars

----------------------------------------------------------------------------
(* Long chat histories *)

\* Another turn, and an entry that has no answer.
OtherTurn == [keys |-> {"question", "answer"}, question |-> <<"y">>, answer |-> <<"x">>]

QuestionOnly == [keys |-> {"question"}, question |-> <<"x">>, answer |-> <<>>]

HistoryEntries == {Turn, OtherTurn, QuestionOnly}

\* The histories of up to MaxTurns entries.
LongHistories ==
    { [given |-> TRUE, turns |-> t] :
          t \in UNION { [1 .. n -> HistoryEntries] : n \in 0 .. MaxTurns } }

\* Vector retrieval over one passage, no reranker.
InitHistory ==
    /\ InitProviders
    /\ config = Config("vector", "none", HybridAlpha, MmrLambda, {DefaultProvider})

\* Queries with histories of every length.
NextHistory ==
    \/ AllIdle /\ \E chat_history \in LongHistories :
                      StartQueryWithHistory(1, <<"x">>, "A", chat_history, 1, None)
    \/ QueryStep(1)
    \/ \E outcome \in RewriteOutcomes : Rewrite(1, outcome)

SpecHistory == InitHistory /\ [][NextHistory]_vars

----------------------------------------------------------------------------
(* The calls end *)

\* Vector and contextual-compression retrieval with the MMR reranker.
InitLive ==
    /\ Init
    /\ config.retriever_type \in {"vector", "contextual_compression"}
    /\ config.reranker_type = "mmr"

\* A call is synchronous: once it has begun, its next statement runs. The
\* calls it makes to its collaborators return or raise.
Fairness ==
    /\ WF_vars(QueryStep(1))
    /\ WF_vars(\E outcome \in RewriteOutcomes : Rewrite(1, outcome))

\* One notebook: documents are added to it, and queries run against it, with
\* and without history, with the default provider or an unsupported one.
NextLive ==
    \/ AllIdle /\ \E text \in Texts : AddDocuments("A", text)
    \/ AllIdle /\ \E question \in Questions, provider \in {None, "bogus"} :
                      StartQuery(1, question, "A", 1, provider)
    \/ AllIdle /\ \E chat_history \in Histories :
                      StartQueryWithHistory(1, <<"x">>, "A", chat_history, 1, None)
    \/ QueryStep(1)
    \/ \E outcome \in RewriteOutcomes : Rewrite(1, outcome)

SpecLive == InitLive /\ [][NextLive]_vars /\ Fairness

----------------------------------------------------------------------------
(* The claims *)

IsQuery(c) == Frame(c).op \in {"query", "query_with_history"}

Done(c) == Frame(c).pc = "done"

\* C1. Namespace isolation: the index keeps each passage in the collection of
\* the notebook it was added to, and the passages a query retrieves, and the
\* sources it returns, were all added to the notebook the query names; a
\* passage added to another notebook is never among them.
C1_NamespaceIsolation ==
    /\ \A n \in Notebooks : \A i \in DOMAIN store[CollectionName(n)] :
           store[CollectionName(n)][i].origin = n
    /\ \A c \in CallIds :
           /\ \A i \in DOMAIN Frame(c).docs : Frame(c).docs[i].origin = Frame(c).notebook_id
           /\ \A i \in DOMAIN Frame(c).result.sources :
                  Frame(c).result.sources[i].metadata.origin = Frame(c).notebook_id

\* A query against B returned passages while A holds passages too.
C1_Witness ==
    \E c \in CallIds :
        /\ Done(c) /\ Frame(c).notebook_id = "B" /\ Frame(c).result.kind = "ok"
        /\ Frame(c).result.sources # <<>>
        /\ store[CollectionName("A")] # <<>>

\* C2. Empty-context short circuit: when retrieval returned zero passages, the
\* query ends at once with the canned answer, no sources, retrieved_docs = 0
\* and no error, and it has made no generation call to synthesize.
C2_EmptyShortCircuit ==
    \A c \in CallIds :
        (IsQuery(c) /\ Frame(c).retrieved = 0) =>
            /\ Done(c)
            /\ Frame(c).synth_calls = 0
            /\ Frame(c).result.kind = "empty"
            /\ Frame(c).result.answer = CannedAnswer
            /\ Frame(c).result.sources = <<>>
            /\ Frame(c).result.retrieved_docs = 0
            /\ Frame(c).result.error = ""

\* A query with history rewrote its question, retrieved nothing and answered.
C2_Witness ==
    \E c \in CallIds :
        /\ Done(c) /\ Frame(c).op = "query_with_history" /\ Frame(c).retrieved = 0
        /\ Frame(c).rewrite_calls = 1 /\ Frame(c).result.answer = CannedAnswer

\* C3. Failure containment: once a stage of a query has raised, the call is in
\* its handler or has returned, and what it returns is the error-shaped
\* result: the answer describes the error, sources is empty and meta.error is
\* set; the exception never leaves the call.
C3_FailureContainment ==
    \A c \in CallIds :
        (IsQuery(c) /\ Frame(c).e # "") =>
            /\ Frame(c).pc \in {"except", "done"}
            /\ Done(c) =>
                  /\ Frame(c).result.kind = "error"
                  /\ Frame(c).result.answer = ErrorAnswer(Frame(c).e)
                  /\ Frame(c).result.sources = <<>>
                  /\ Frame(c).result.error = Frame(c).e

\* The generation call raised after passages were retrieved, and the query
\* returned.
C3_Witness ==
    \E c \in CallIds :
        /\ Done(c) /\ Frame(c).op = "query_with_history" /\ Frame(c).e = "generation"
        /\ Frame(c).docs # <<>> /\ Frame(c).result.error = "generation"

\* C4. All-or-nothing provider activation: set_provider(name) returns True
\* only when the probe went to the backend of that name and answered with
\* content, and then the active provider is name; when the name is
\* unsupported, or the probe raised or answered nothing, it returns False;
\* and when it returns False the active provider is what it was before.
C4_AllOrNothing ==
    \A c \in CallIds :
        (Frame(c).op = "set_provider" /\ Done(c)) =>
            /\ Frame(c).result.kind = "true" =>
                  /\ Frame(c).provider \in SupportedProviders
                  /\ Frame(c).probed = Frame(c).provider
                  /\ Frame(c).probe_out = "content"
                  /\ current_provider = Frame(c).provider
            /\ (Frame(c).provider \notin SupportedProviders
                    \/ Frame(c).probe_out \in {"raise", "empty"}) =>
                  Frame(c).result.kind = "false"
            /\ Frame(c).result.kind = "false" => current_provider = Frame(c).before

\* The same, for the names that are not empty (holds).
C4_NonEmptyName ==
    \A c \in CallIds :
        (Frame(c).op = "set_provider" /\ Done(c) /\ Frame(c).provider # "") =>
            /\ Frame(c).result.kind = "true" =>
                  /\ Frame(c).provider \in SupportedProviders
                  /\ Frame(c).probed = Frame(c).provider
                  /\ Frame(c).probe_out = "content"
                  /\ current_provider = Frame(c).provider
            /\ (Frame(c).provider \notin SupportedProviders
                    \/ Frame(c).probe_out \in {"raise", "empty"}) =>
                  Frame(c).result.kind = "false"
            /\ Frame(c).result.kind = "false" => current_provider = Frame(c).before

\* C5. Generation-backend memoization: at most one backend is ever
\* constructed per provider name, whoever asks for it (a query, a probe, a
\* provider switch, an advanced retrieval mode).
C5_OneInstancePerName == \A p \in SupportedProviders : built[p] <= 1

\* C6. Provider swap atomicity: the active provider, every value a query read
\* from it when it began, and every value the handler of a failed query read
\* from it, is the configured default or a name whose probe answered with
\* content in some set_provider call; never a name whose probe failed.
C6_SwapAtomicity ==
    LET Allowed == {DefaultProvider} \cup activated
    IN  /\ current_provider \in Allowed
        /\ \A c \in CallIds :
               (IsQuery(c) /\ Falsy(Frame(c).provider)) =>
                   /\ Frame(c).llm_provider \in Allowed
                   /\ (Done(c) /\ Frame(c).result.kind = "error") =>
                          Frame(c).result.provider \in Allowed

\* A query read the name a switch activated while another switch is in flight.
C6_Witness ==
    \E c, d \in CallIds :
        /\ IsQuery(c) /\ Falsy(Frame(c).provider) /\ Frame(c).llm_provider = "deepseek"
        /\ Frame(d).op = "set_provider" /\ Frame(d).pc = "probe"

\* C7. Rewrite no-op on empty history: a query_with_history whose history is
\* None or [] makes no rewrite call, and the question it retrieves with and
\* synthesizes from is the caller's question, unchanged.
C7_RewriteNoOp ==
    \A c \in CallIds :
        (Frame(c).op = "query_with_history" /\ Frame(c).chat_history.turns = <<>>) =>
            /\ Frame(c).rewrite_calls = 0
            /\ Frame(c).q = Frame(c).question

\* A query with the history [] retrieved passages and synthesized an answer.
C7_Witness ==
    \E c \in CallIds :
        /\ Frame(c).op = "query_with_history" /\ Frame(c).chat_history.given
        /\ Frame(c).chat_history.turns = <<>>
        /\ Done(c) /\ Frame(c).result.kind = "ok" /\ Frame(c).synth_calls = 1

\* C8. Rewrite is best-effort: when the rewrite call raised, or answered
\* nothing or only blanks, the question the query goes on with is the
\* caller's question, so it is not empty.
C8_RewriteBestEffort ==
    \A c \in CallIds :
        (/\ Frame(c).op = "query_with_history"
         /\ Frame(c).rewrite_calls = 1
         /\ (Frame(c).rewrite_out.raises \/ Strip(Frame(c).rewrite_out.text) = <<>>)) =>
            /\ Frame(c).q = Frame(c).question
            /\ Frame(c).q # <<>>

\* What vector mode returns for the call's notebook, k and question.
VectorModeSources(c, mmr_fails) ==
    FormatSources(GetRelevantDocuments(
        CreateVectorRetriever(CollectionName(Frame(c).notebook_id), Frame(c).top_k),
        Frame(c).q, mmr_fails, FALSE))

\* C9. Retrieval degradation: when a step of the retrieval mode failed, while
\* the retriever was built or while the query ran against it, and no other
\* stage raised, the query returns no error and its sources are the passages
\* of vector mode.
C9_RetrievalDegradation ==
    \A c \in CallIds :
        (/\ IsQuery(c) /\ Done(c)
         /\ Frame(c).failed # ""
         /\ (Frame(c).e = "" \/ Frame(c).failed = "run")) =>
            /\ Frame(c).result.kind \in {"ok", "empty"}
            /\ Frame(c).result.error = ""
            /\ \E mmr_fails \in BOOLEAN : Frame(c).result.sources = VectorModeSources(c, mmr_fails)

\* C10. Lexical-unavailable fallback: when the namespace is empty or the
\* lexical index cannot be built, the retriever that lexical mode and hybrid
\* mode build is the retriever of vector mode, whatever the reranker type.
C10_LexicalFallback ==
    \A c \in CallIds :
        (IsQuery(c) /\ Frame(c).failed = "lexical" /\ Frame(c).retriever # NoRetriever) =>
            Frame(c).retriever =
                CreateVectorRetriever(CollectionName(Frame(c).notebook_id), Frame(c).top_k)

\* The first place of a text in a list of passages (0: none).
FirstPlace(docs, text) ==
    IF \E i \in DOMAIN docs : docs[i].text = text
    THEN CHOOSE i \in DOMAIN docs :
             docs[i].text = text /\ \A h \in 1 .. i - 1 : docs[h].text # text
    ELSE 0

\* The texts two lists both hold come in the same order in both.
SameOrder(a, b) ==
    \A t1, t2 \in Texts :
        (/\ FirstPlace(a, t1) > 0 /\ FirstPlace(a, t2) > 0
         /\ FirstPlace(b, t1) > 0 /\ FirstPlace(b, t2) > 0) =>
            (FirstPlace(a, t1) < FirstPlace(a, t2) <=> FirstPlace(b, t1) < FirstPlace(b, t2))

\* C11. Hybrid fusion boundary weights: over the same namespace, question and
\* k, the passages hybrid mode returns with the vector weight 1.0 come in the
\* order vector mode returns them, and with the vector weight 0.0 in the order
\* lexical mode returns them, when no step of the mode failed (stated for the
\* passages both return; that the lists are equal is stronger).
C11_BoundaryWeights ==
    \A c \in CallIds :
        (/\ IsQuery(c) /\ config.retriever_type = "hybrid"
         /\ Frame(c).failed = "" /\ Frame(c).retrieved >= 0) =>
            LET ns == CollectionName(Frame(c).notebook_id)
                k == Frame(c).top_k
            IN  /\ config.hybrid_alpha = 10 =>
                      SameOrder(Frame(c).docs,
                                GetRelevantDocuments(CreateVectorRetriever(ns, k),
                                                     Frame(c).q, FALSE, FALSE))
                /\ config.hybrid_alpha = 0 =>
                      SameOrder(Frame(c).docs,
                                GetRelevantDocuments(CreateBm25Retriever(ns, k, FALSE),
                                                     Frame(c).q, FALSE, FALSE))

\* C12. Hybrid result bound: a query in hybrid mode retrieves at most k
\* passages, and no two of them have the same content and source.
C12_HybridResultBound ==
    \A c \in CallIds :
        (IsQuery(c) /\ config.retriever_type = "hybrid" /\ Frame(c).retrieved >= 0) =>
            /\ Len(Frame(c).docs) <= Frame(c).top_k
            /\ \A i, j \in DOMAIN Frame(c).docs :
                   (/\ Frame(c).docs[i].text = Frame(c).docs[j].text
                    /\ Frame(c).docs[i].origin = Frame(c).docs[j].origin) => i = j

\* C13. Reranker length contract: rerank_documents of the Basic and of the MMR
\* reranker returns min(top_k, n) of the n passages it is given when top_k is
\* positive, and n passages when top_k is absent; on the success path of MMR,
\* on its fallback path, and for the lists of 0 and 1 passages.
C13_RerankLength ==
    \A c \in CallIds :
        (Frame(c).op = "rerank_documents" /\ Done(c)) =>
            /\ Frame(c).top_k > 0 =>
                   Len(Frame(c).docs) = Min(Frame(c).top_k, Len(Frame(c).documents))
            /\ Frame(c).top_k = NoTopK => Len(Frame(c).docs) = Len(Frame(c).documents)

\* The MMR reranker fell back on three passages and returned the two asked for.
C13_Witness ==
    \E c \in CallIds :
        /\ Frame(c).op = "rerank_documents" /\ Done(c)
        /\ config.reranker_type = "mmr" /\ Frame(c).failed = "mmr"
        /\ Len(Frame(c).documents) = 3 /\ Frame(c).top_k = 2 /\ Len(Frame(c).docs) = 2

\* Three passages, two of the content dup and one of the content other.
TwoAlikeOneDistinct(documents, dup, other) ==
    /\ Len(documents) = 3 /\ dup # other
    /\ Cardinality({ i \in DOMAIN documents : documents[i].text = dup }) = 2
    /\ Cardinality({ i \in DOMAIN documents : documents[i].text = other }) = 1

\* Wherever a second passage of the content dup stands in the list, the
\* passage of the content other stands before it.
DistinctBeforeSecondDuplicate(out, dup, other) ==
    \A j \in DOMAIN out :
        (out[j].text = dup /\ \E i \in 1 .. j - 1 : out[i].text = dup) =>
            \E h \in 1 .. j - 1 : out[h].text = other

C15_ExplicitPreconditionError ==
    \A c \in CallIds :
        (IsQuery(c) /\ Done(c)) =>
            /\ (~Falsy(Frame(c).provider) /\ Frame(c).provider \notin SupportedProviders) =>
                   /\ Frame(c).result.kind = "error"
                   /\ Frame(c).result.error = "Unsupported LLM provider"
            /\ config.retriever_type \notin SupportedRetrieverTypes =>
                   /\ Frame(c).result.kind = "error"
                   /\ Frame(c).result.error # ""

C17_StaticAvailability ==
    [][\A c \in CallIds :
          (calls[c].op = "idle" /\ calls'[c].op = "get_available_providers") =>
              /\ Range(calls'[c].result.answer) = config.api_keys \cap SupportedProviders
              /\ Len(calls'[c].result.answer) = Cardinality(config.api_keys \cap SupportedProviders)
              /\ llms' = llms /\ built' = built /\ current_provider' = current_provider
      ]_vars

\* The list names a provider that has an api key and was never constructed,
\* after another backend was constructed and cached.
C17_Witness ==
    \E c \in CallIds :
        /\ Frame(c).op = "get_available_providers" /\ Done(c)
        /\ Frame(c).result.answer = <<"openai", "deepseek">>
        /\ llms["openai"] # 0 /\ built["deepseek"] = 0

\* C18. Cache is add-only: no step removes or replaces an entry of the
\* backend cache, and the handle a call holds for a name is the cached one.
C18_CacheAddOnly ==
    [][/\ \A p \in SupportedProviders : llms[p] # 0 => llms'[p] = llms[p]
       /\ \A c \in CallIds :
              calls'[c].llm # 0 =>
                  calls'[c].llm = llms'[Or(calls'[c].llm_provider, DefaultProvider)]
      ]_vars

\* After a switch to deepseek, set_provider("openai") holds the one backend
\* ever constructed for openai.
C18_Witness ==
    \E c \in CallIds :
        /\ Frame(c).op = "set_provider" /\ Frame(c).provider = "openai"
        /\ Frame(c).before = "deepseek" /\ Frame(c).pc = "probe"
        /\ Frame(c).llm = 1 /\ llms["openai"] = 1 /\ llms["deepseek"] # 0

\* C19. Embedding backend per name: the handle get_embeddings(P) returns was
\* constructed for P (for the configured default when P is absent).
C19_EmbeddingPerName ==
    \A c \in CallIds :
        (/\ Frame(c).op = "get_embeddings" /\ Done(c)
         /\ Frame(c).result.kind = "handle") =>
            Frame(c).result.provider = Or(Frame(c).provider, EmbeddingProvider)

\* C20. Every non-empty retrieval is reranked before synthesis: when a
\* reranker is configured, in every retrieval mode, the passages a query hands
\* to synthesis are what the configured reranker returned: the retriever the
\* query ran is a RerankedRetriever with that reranker.
C20_RerankedBeforeSynthesis ==
    \A c \in CallIds :
        (/\ IsQuery(c) /\ Frame(c).pc = "synthesize"
         /\ config.retriever_type \in SupportedRetrieverTypes
         /\ config.reranker_type # "none") =>
            /\ Frame(c).retriever.kind = "reranked"
            /\ Frame(c).retriever.reranker = config.reranker_type

\* How often a call ran each stage: rewrite, retrieve, synthesize.
StageCalls(f) == <<f.rewrite_calls, f.retrieve_calls, f.synth_calls>>

\* A step of a query runs a stage at most once and in order: the stage it
\* runs had not run before, and no later stage had.
SinglePassStep(c) ==
    \A s \in 1 .. 3 :
        StageCalls(calls'[c])[s] # StageCalls(calls[c])[s] =>
            /\ StageCalls(calls[c])[s] = 0 /\ StageCalls(calls'[c])[s] = 1
            /\ \A t \in s + 1 .. 3 : StageCalls(calls[c])[t] = 0

\* An exception that reaches the call goes to the handler at once, and the
\* handler returns the error-shaped result without running a stage.
FailsDirectly(c) ==
    /\ (calls[c].e = "" /\ calls'[c].e # "") => calls'[c].pc = "except"
    /\ calls[c].pc = "except" =>
           /\ calls'[c].pc = "done" /\ calls'[c].result.kind = "error"
           /\ StageCalls(calls'[c]) = StageCalls(calls[c])

\* The generation call of the rewrite stage raised in this step.
RewriteRaises(c) ==
    calls'[c].rewrite_calls = calls[c].rewrite_calls + 1 /\ calls'[c].rewrite_out.raises

\* A step of a call that stays the same call.
QueryStays(c) == IsQuery(c) /\ calls'[c].op = calls[c].op

\* C21, as stated. Single pass, always responds: every query eventually
\* returns; it runs rewrite, retrieve and synthesize at most once each and in
\* that order; a failure in any of the stages, the rewrite stage too, leads at
\* once to the error-shaped result; no stage is run again.
C21_SinglePass ==
    /\ [][\A c \in CallIds :
              QueryStays(c) =>
                  /\ SinglePassStep(c)
                  /\ FailsDirectly(c)
                  /\ RewriteRaises(c) => calls'[c].pc = "except"]_vars
    /\ \A c \in CallIds : IsQuery(c) ~> Done(c)

\* C21, amended. Single pass, always responds: every query eventually
\* returns; it runs rewrite, retrieve and synthesize at most once each and in
\* that order; an exception that leaves a stage leads at once to the
\* error-shaped result (the rewrite stage handles the failure of its own
\* generation call); no stage is run again.
C21_SinglePassHandled ==
    /\ [][\A c \in CallIds :
              QueryStays(c) => (SinglePassStep(c) /\ FailsDirectly(c))]_vars
    /\ \A c \in CallIds : IsQuery(c) ~> Done(c)

\* A query with history whose rewrite call raised ran the three stages, once
\* each, and returned an answer.
C21_Witness ==
    \E c \in CallIds :
        /\ Frame(c).op = "query_with_history" /\ Done(c)
        /\ Frame(c).rewrite_out.raises /\ StageCalls(Frame(c)) = <<1, 1, 1>>
        /\ Frame(c).result.kind = "ok"

\* The largest number of a set that is not empty.
Largest(S) == CHOOSE m \in S : \A x \in S : x <= m

\* The reference greedy sequence over the passages 1 .. n: target distinct
\* indices; the first has the largest query similarity; each next one has the
\* largest lam * qs[i] - (1 - lam) * (largest similarity to a chosen one) of
\* those not chosen; of equals, the first in the input order.
IsGreedySequence(sel, n, qs, ds, lam, target) ==
    /\ Len(sel) = target
    /\ \A r, t \in DOMAIN sel : r # t => sel[r] # sel[t]
    /\ \A r \in DOMAIN sel :
           LET chosen == { sel[t] : t \in 1 .. r - 1 }
               Sc(i) == IF r = 1 THEN qs[i]
                        ELSE lam * qs[i] - (10 - lam) * Largest({ ds[i][j] : j \in chosen })
           IN  \A i \in (1 .. n) \ chosen :
                   /\ Sc(sel[r]) >= Sc(i)
                   /\ Sc(i) = Sc(sel[r]) => sel[r] <= i

\* What the call returned is the reference greedy sequence of what it was
\* given, and the list itself when it holds fewer than two passages.
ReturnsGreedySequence(c) ==
    LET documents == Frame(c).documents
        n == Len(documents)
        target == IF Frame(c).top_k > 0 THEN Min(Frame(c).top_k, n) ELSE n
        qs == [i \in 1 .. n |-> QuerySim(Frame(c).q, documents[i].text)]
        ds == [i \in 1 .. n |-> [j \in 1 .. n |-> DocSim(documents[i].text, documents[j].text)]]
    IN  IF n <= 1 THEN Frame(c).docs = documents
        ELSE \E sel \in [1 .. target -> 1 .. n] :
                 /\ IsGreedySequence(sel, n, qs, ds, config.mmr_lambda, target)
                 /\ Len(Frame(c).docs) = target
                 /\ \A r \in 1 .. target :
                        /\ Frame(c).docs[r].text = documents[sel[r]].text
                        /\ Frame(c).docs[r].score = documents[sel[r]].score

\* C22, as stated. MMR greedy selection: what the MMR reranker returns for two
\* or more passages is the reference greedy sequence, ties going to the
\* passage first in the input order; for no passage or one it returns the
\* list unchanged.
C22_GreedySelection ==
    \A c \in CallIds :
        (Frame(c).op = "rerank_documents" /\ Done(c) /\ config.reranker_type = "mmr") =>
            ReturnsGreedySequence(c)

\* C22, amended. MMR greedy selection on the success path: the same, when no
\* step of the similarity computation failed.
C22_GreedySelectionOnSuccess ==
    \A c \in CallIds :
        (/\ Frame(c).op = "rerank_documents" /\ Done(c)
         /\ config.reranker_type = "mmr" /\ Frame(c).failed = "") =>
            ReturnsGreedySequence(c)

\* Two passages tie for the first place and the earlier one took it; the
\* passage of another content came second.
C22_Witness ==
    \E c \in CallIds :
        /\ Frame(c).op = "rerank_documents" /\ Done(c)
        /\ config.reranker_type = "mmr" /\ config.mmr_lambda = 3 /\ Frame(c).failed = ""
        /\ Frame(c).q = <<"x">> /\ Len(Frame(c).documents) = 3 /\ Len(Frame(c).docs) = 3
        /\ [i \in 1 .. 3 |-> Frame(c).documents[i].text] = <<"y", "x", "X">>
        /\ [i \in 1 .. 3 |-> Frame(c).docs[i].text] = <<"x", "y", "X">>

\* The permutations of 1 .. n.
Permutations1(n) == { p \in [1 .. n -> 1 .. n] : \A i, j \in 1 .. n : i # j => p[i] # p[j] }

\* The relevance score of a passage, 0.0 when it has none.
Relevance(d) == IF d.score = NoScore THEN 0 ELSE d.score

\* C23. Basic reranking is a stable descending sort: what the Basic reranker
\* returns is the beginning (all of it when top_k is absent) of a permutation
\* of its input in which the relevance scores, 0.0 for a passage without one,
\* never increase, and passages of equal scores keep their input order.
C23_StableDescendingSort ==
    \A c \in CallIds :
        (Frame(c).op = "rerank_documents" /\ Done(c) /\ config.reranker_type = "basic") =>
            LET documents == Frame(c).documents
                n == Len(documents)
                kept == IF Frame(c).top_k > 0 THEN Min(Frame(c).top_k, n) ELSE n
            IN  \E p \in Permutations1(n) :
                    /\ \A i, j \in 1 .. n :
                           i < j =>
                               /\ Relevance(documents[p[i]]) >= Relevance(documents[p[j]])
                               /\ Relevance(documents[p[i]]) = Relevance(documents[p[j]])
                                      => p[i] < p[j]
                    /\ Frame(c).docs = [i \in 1 .. kept |-> documents[p[i]]]

\* A passage without a score and a later one of the score 0.0 came back in
\* their input order, after the passage of the higher score that stood last.
C23_Witness ==
    \E c \in CallIds :
        /\ Frame(c).op = "rerank_documents" /\ Done(c) /\ config.reranker_type = "basic"
        /\ Frame(c).top_k = NoTopK
        /\ Frame(c).documents
               = <<ScoredPassage("x", NoScore), ScoredPassage("X", 0), ScoredPassage("y", 1)>>
        /\ Frame(c).docs
               = <<ScoredPassage("y", 1), ScoredPassage("x", NoScore), ScoredPassage("X", 0)>>

\* C24. MMR failure fallback: when a step of the MMR computation failed, what
\* rerank_documents returns is what Basic reranking returns for the list it
\* was given and the same top_k, and no exception leaves the call.
C24_FailureFallback ==
    \A c \in CallIds :
        (/\ Frame(c).op = "rerank_documents" /\ Done(c)
         /\ config.reranker_type = "mmr" /\ Frame(c).failed = "mmr") =>
            /\ Frame(c).e = ""
            /\ Frame(c).docs = BasicRerank(Frame(c).documents, Frame(c).top_k)
            /\ Frame(c).documents_after = Frame(c).documents

\* The computation failed on three passages; the two asked for came back, the
\* passage of the higher score, which was given last, first.
C24_Witness ==
    \E c \in CallIds :
        /\ Frame(c).op = "rerank_documents" /\ Done(c)
        /\ config.reranker_type = "mmr" /\ Frame(c).failed = "mmr" /\ Frame(c).top_k = 2
        /\ Frame(c).documents
               = <<ScoredPassage("x", NoScore), ScoredPassage("X", 0), ScoredPassage("y", 1)>>
        /\ Frame(c).docs = <<ScoredPassage("y", 1), ScoredPassage("x", NoScore)>>

\* The passages at the places 1 .. Len(docs) of what the call returned carry
\* their place as rank and their query similarity; every passage of the list
\* given has the content and relevance score it had; the passages the call
\* wrote to are the ones it returned.
AnnotatesSelected(c) ==
    LET documents == Frame(c).documents
        left == Frame(c).documents_after
        docs == Frame(c).docs
    IN  /\ \A i \in DOMAIN docs :
               /\ docs[i].mmr_rank = i
               /\ docs[i].original_score = QuerySim(Frame(c).q, docs[i].text)
        /\ Len(left) = Len(documents)
        /\ \A j \in DOMAIN documents :
               /\ left[j].text = documents[j].text /\ left[j].score = documents[j].score
               /\ left[j] # documents[j] => \E i \in DOMAIN docs : docs[i] = left[j]
        /\ Cardinality({ j \in DOMAIN left : left[j].mmr_rank # 0 }) = Len(docs)

\* C25, as stated. MMR annotation: after an MMR rerank that did not fail, the
\* passage at the place i of the output carries the rank i and its query
\* similarity, no relevance score has changed, and the passages that were not
\* selected carry no rank from this call.
C25_Annotation ==
    \A c \in CallIds :
        (/\ Frame(c).op = "rerank_documents" /\ Done(c)
         /\ config.reranker_type = "mmr" /\ Frame(c).failed = "") =>
            AnnotatesSelected(c)

\* C25, amended. MMR annotation: the same, for a list of two passages or more
\* (a list of one passage is returned as given, without rank or similarity).
C25_AnnotationOfTwoOrMore ==
    \A c \in CallIds :
        (/\ Frame(c).op = "rerank_documents" /\ Done(c)
         /\ config.reranker_type = "mmr" /\ Frame(c).failed = ""
         /\ Len(Frame(c).documents) >= 2) =>
            AnnotatesSelected(c)

\* Two of three passages were selected and carry the ranks 1 and 2; the
\* third, which stood between them in the list given, carries none.
C25_Witness ==
    \E c \in CallIds :
        /\ Frame(c).op = "rerank_documents" /\ Done(c)
        /\ config.reranker_type = "mmr" /\ Frame(c).failed = "" /\ Frame(c).top_k = 2
        /\ Len(Frame(c).documents) = 3 /\ Len(Frame(c).docs) = 2
        /\ Frame(c).documents_after[1].mmr_rank = 1
        /\ Frame(c).documents_after[2].mmr_rank = 0
        /\ Frame(c).documents_after[3].mmr_rank = 2
        /\ Frame(c).docs[1].original_score = 10 /\ Frame(c).docs[2].original_score = 0

\* The lines of the last min(5, n) of n turns, in their order: for each turn
\* the question line, then the answer line.
LastFiveTurns(turns) ==
    LET n == Len(turns)
        m == Min(5, n)
    IN  [l \in 1 .. 2 * m |->
            LET turn == turns[n - m + ((l + 1) \div 2)]
            IN  IF l % 2 = 1 THEN <<"user", turn.question>> ELSE <<"assistant", turn.answer>>]

\* C26. Bounded history: the history text a query with history gives to the
\* rewriter, and the one it gives to the synthesis prompt, holds exactly the
\* most recent min(5, n) of the n turns of the history, in their order, each
\* as its question line followed by its answer line (a turn has a question
\* and an answer).
C26_BoundedHistory ==
    \A c \in CallIds :
        (/\ Frame(c).op = "query_with_history"
         /\ \A i \in DOMAIN Frame(c).chat_history.turns :
                Frame(c).chat_history.turns[i].keys = {"question", "answer"}) =>
            /\ Frame(c).rewrite_calls = 1 =>
                   Frame(c).rewrite_history = LastFiveTurns(Frame(c).chat_history.turns)
            /\ Frame(c).synth_calls = 1 =>
                   Frame(c).synth_history = LastFiveTurns(Frame(c).chat_history.turns)

\* A history of six turns, the oldest unlike the others: the rewriter and the
\* synthesis prompt were given the ten lines of the last five.
C26_Witness ==
    \E c \in CallIds :
        /\ Frame(c).op = "query_with_history" /\ Done(c) /\ Frame(c).result.kind = "ok"
        /\ Frame(c).chat_history.turns = <<OtherTurn, Turn, Turn, Turn, Turn, Turn>>
        /\ Frame(c).rewrite_calls = 1 /\ Frame(c).synth_calls = 1
        /\ Len(Frame(c).rewrite_history) = 10 /\ Len(Frame(c).synth_history) = 10
        /\ Frame(c).synth_history[1] = <<"user", Turn.question>>
        /\ \A l \in 1 .. 10 : l % 2 = 1 => Frame(c).synth_history[l][2] # OtherTurn.question

\* C27. Synthesis preserves order: in every successful result the sources are
\* the passages retrieval returned, one for one and in their order; the
\* context given to the synthesis chain numbers them 1 .. n in that order; and
\* retrieved_docs is the number of sources.
C27_SynthesisPreservesOrder ==
    \A c \in CallIds :
        (IsQuery(c) /\ Done(c) /\ Frame(c).result.kind = "ok") =>
            LET docs == Frame(c).docs
                sources == Frame(c).result.sources
                context == Frame(c).context
            IN  /\ Frame(c).retrieved = Len(docs)
                /\ Len(sources) = Len(docs) /\ Len(context) = Len(docs)
                /\ \A i \in DOMAIN docs :
                       /\ sources[i].content = docs[i].text
                       /\ sources[i].metadata.origin = docs[i].origin
                       /\ sources[i].metadata.mmr_rank = docs[i].mmr_rank
                       /\ context[i].number = i
                       /\ context[i].content = docs[i].text
                /\ Frame(c).result.retrieved_docs = Len(sources)

\* The reranker put the passage stored second first, and the sources list the
\* two passages in the reranker's order.
C27_Witness ==
    \E c \in CallIds :
        /\ IsQuery(c) /\ Done(c) /\ Frame(c).result.kind = "ok"
        /\ [i \in DOMAIN store[CollectionName(Frame(c).notebook_id)] |->
               store[CollectionName(Frame(c).notebook_id)][i].text] = <<"x", "y">>
        /\ Len(Frame(c).result.sources) = 2
        /\ Frame(c).result.sources[1].content = "y"
        /\ Frame(c).result.sources[2].content = "x"
        /\ Frame(c).result.sources[1].metadata.mmr_rank = 1

\* C28. Request routing at the HTTP boundary: the query a request on the
\* notebook N with the question Q makes has Q as its question and N as its
\* notebook, so it retrieves from the collection of N with the text Q.
C28_RequestRouting ==
    \A c \in CallIds :
        (Frame(c).op = "query" /\ Frame(c).req_notebook # "") =>
            /\ Frame(c).question = Frame(c).req_question
            /\ Frame(c).notebook_id = Frame(c).req_notebook
            /\ Frame(c).retriever # NoRetriever =>
                   Frame(c).retriever.ns = CollectionName(Frame(c).req_notebook)
            /\ Frame(c).q = Frame(c).req_question

\* C29. Question echo: the question field of every result of query and of
\* query_with_history, the successful, the empty and the error-shaped one, is
\* the question the caller passed, also when the question was rewritten.
C29_QuestionEcho ==
    \A c \in CallIds :
        (IsQuery(c) /\ Done(c) /\ Frame(c).result.kind \in {"ok", "empty", "error"}) =>
            Frame(c).result.question = Frame(c).question

\* C30. Provider provenance under concurrent swaps: meta.provider of every
\* result of a query, the error-shaped one too, names the provider the query
\* resolved when it began, whose backend it asked for; and a query that names
\* a provider of its own leaves the active provider as it is.
C30_ProviderProvenance ==
    /\ [](\A c \in CallIds :
             (IsQuery(c) /\ Done(c) /\ Frame(c).result.kind \in {"ok", "empty", "error"}) =>
                 Frame(c).result.provider = Frame(c).llm_provider)
    /\ [][\A c \in CallIds :
              (calls'[c] # calls[c] /\ "query" \in {calls[c].op, calls'[c].op}) =>
                  current_provider' = current_provider]_vars

====
